---- MODULE Spec2Model ----
(***************************************************************************)
(* The CLI server on the UART service (src/cli/cli_uart.cpp): the line     *)
(* assembler Uart::ReceiveTask / Uart::ProcessCommand and the transmit     *)
(* ring Uart::Output / Uart::Send / Uart::SendDoneTask.                    *)
(*                                                                         *)
(* Buffers are functions over 0-based indices, as the C arrays are.  The   *)
(* 16-bit members keep their width: every store to one is taken % U16.     *)
(* A store past the end of mRxBuffer is undefined behaviour, modelled as a  *)
(* choice (StoreRx): on a member that follows the array the byte lands     *)
(* there (StoreAt) or the operation goes on with the value it held before; *)
(* outside the members it lands in other memory or kills the process.      *)
(* The program goes on from the state the store leaves, and runs are       *)
(* followed for MaxAfter operations from the first such store.             *)
(***************************************************************************)
EXTENDS Integers, Sequences, FiniteSets, TLC

\* ------------------------------------------------------------------ sizes
\* Scaled-down sizes of the two member arrays; the ring holds a
\* terminator's whole answer, CRNL and the prompt.
kRxBufferSize == 2
kTxBufferSize == 4

\* Total bytes offered to Output in one run of the ring-only specification.
MaxOffered == 6

\* Operations a run is followed for from its first store past the end of
\* mRxBuffer.
MaxAfter == 2

\* uint16_t
U16 == 65536

\* ------------------------------------------------------------------ bytes
CR == 13
LF == 10
BS == 8
DEL == 127
SP == 32
GT == 62
NUL == 0
ChA == 97
ChX == 120
ChY == 121

sCommandPrompt == <<GT, SP>>
sEraseString == <<BS, SP, BS>>
CRNL == <<CR, LF>>

\* Bytes the platform delivers to ReceiveTask.
RxAlphabet == {CR, BS, ChA}
\* Bytes other callers (interpreter, logging) hand to Output.
TxAlphabet == {ChX, ChY}

Min(a, b) == IF a < b THEN a ELSE b

RECURSIVE SeqsUpTo(_, _)
SeqsUpTo(S, n) ==
    IF n = 0 THEN {<<>>}
    ELSE LET shorter == SeqsUpTo(S, n - 1)
         IN  shorter \cup {Append(s, x) : s \in {t \in shorter : Len(t) = n - 1}, x \in S}

\* ------------------------------------------------------------------ state
VARIABLES
    mRxBuffer,    \* char mRxBuffer[kRxBufferSize]
    mRxLength,    \* uint16_t
    mTxBuffer,    \* char mTxBuffer[kTxBufferSize]
    mTxHead,      \* uint16_t
    mTxLength,    \* uint16_t
    mSendLength,  \* uint16_t
    pending,      \* otPlatUartSend calls the driver has not yet completed
    ub,           \* operations run since the first store past the end of
                  \* mRxBuffer, that one included; 0 while there was none
    killed,       \* a store outside the process's memory has ended the run
    lastOp,       \* the most recent operation: its name and, for ReceiveTask,
                  \* the last byte of the span; in ring-only runs also the
                  \* span written, the count returned and the number of
                  \* otPlatUartSend calls made
    offered,      \* ring-only runs: every byte handed to Output
    accepted,     \* ring-only runs: what each Output call queued, and where
    presented     \* ring-only runs: every span handed to otPlatUartSend

logVars == <<offered, accepted, presented>>
vars == <<mRxBuffer, mRxLength, mTxBuffer, mTxHead, mTxLength, mSendLength,
          pending, ub, killed, lastOp, offered, accepted, presented>>

\* The object as a record; ev collects the calls an operation makes, ub
\* tells whether a store past the end of mRxBuffer has happened, killed
\* whether the operation has ended in a fault.
Cur ==
    [rxBuf |-> mRxBuffer, rxLen |-> mRxLength, txBuf |-> mTxBuffer,
     txHead |-> mTxHead, txLen |-> mTxLength, sendLen |-> mSendLength,
     ev |-> <<>>, ub |-> ub > 0, killed |-> FALSE]

\* The members alone, without what the model records beside them.
Fields(u) ==
    [rxBuf |-> u.rxBuf, rxLen |-> u.rxLen, txBuf |-> u.txBuf,
     txHead |-> u.txHead, txLen |-> u.txLen, sendLen |-> u.sendLen]

Emit(u, e) == [u EXCEPT !.ev = Append(@, e)]

\* Uart::Uart
UartInit ==
    [rxBuf |-> [i \in 0..(kRxBufferSize - 1) |-> NUL], rxLen |-> 0,
     txBuf |-> [i \in 0..(kTxBufferSize - 1) |-> NUL],
     txHead |-> 0, txLen |-> 0, sendLen |-> 0]

\* ------------------------------------------------------------------ ring
\* Send with the span taken from the start of the buffer, not the head.
Send_fromZero(u) ==
    IF u.sendLen # 0 THEN u
    ELSE LET n == IF u.txLen > kTxBufferSize - u.txHead
                  THEN (kTxBufferSize - u.txHead) % U16
                  ELSE u.txLen
             v == [u EXCEPT !.sendLen = n]
         IN  IF n > 0 THEN Emit(v, <<"begin_send", 0, n>>) ELSE v

\* Send without the test for an empty ring.
Send_noEmptyTest(u) ==
    IF u.sendLen # 0 THEN u
    ELSE LET n == IF u.txLen > kTxBufferSize - u.txHead
                  THEN (kTxBufferSize - u.txHead) % U16
                  ELSE u.txLen
         IN  Emit([u EXCEPT !.sendLen = n], <<"begin_send", u.txHead, n>>)

\* Uart::Send
Send(u) ==
    IF u.sendLen # 0 THEN u
    ELSE LET n == IF u.txLen > kTxBufferSize - u.txHead
                  THEN (kTxBufferSize - u.txHead) % U16
                  ELSE u.txLen
             v == [u EXCEPT !.sendLen = n]
         IN  IF n > 0 THEN Emit(v, <<"begin_send", u.txHead, n>>) ELSE v

\* The copy loop of Uart::Output: one byte per iteration at the tail.
RECURSIVE OutputCopy(_, _, _)
OutputCopy(u, aBuf, n) ==
    IF n = 0 THEN u
    ELSE LET tail == (u.txHead + u.txLen) % kTxBufferSize
         IN  OutputCopy([u EXCEPT !.txBuf[tail] = Head(aBuf),
                                  !.txLen = (@ + 1) % U16],
                        Tail(aBuf), n - 1)

\* uint16_t remaining = kTxBufferSize - mTxLength
Remaining(u) == (kTxBufferSize - u.txLen) % U16

\* Output that takes the whole span whatever room is left.
OutputCount_noClamp(u, aBuf) == Len(aBuf)

\* The count Uart::Output returns.
OutputCount(u, aBuf) ==
    IF Len(aBuf) > Remaining(u) THEN Remaining(u) ELSE Len(aBuf)

\* Uart::Output
Output(u, aBuf) ==
    LET n == OutputCount(u, aBuf)
    IN  Send(Emit(OutputCopy(u, aBuf, n), <<"output", aBuf, n>>))

\* SendDoneTask that does not run the send-pump again.
SendDoneTask_noPump(u) ==
    [u EXCEPT !.txHead = (u.txHead + u.sendLen) % kTxBufferSize,
              !.txLen = (u.txLen - u.sendLen) % U16,
              !.sendLen = 0]

\* SendDoneTask that leaves the queued length as it was.
SendDoneTask_keepsQueued(u) ==
    Send([u EXCEPT !.txHead = (u.txHead + u.sendLen) % kTxBufferSize,
                   !.sendLen = 0])

\* SendDoneTask that leaves the head where it was.
SendDoneTask_headStays(u) ==
    Send([u EXCEPT !.txLen = (u.txLen - u.sendLen) % U16,
                   !.sendLen = 0])

\* Uart::SendDoneTask
SendDoneTask(u) ==
    Send([u EXCEPT !.txHead = (u.txHead + u.sendLen) % kTxBufferSize,
                   !.txLen = (u.txLen - u.sendLen) % U16,
                   !.sendLen = 0])

\* ------------------------------------------------------- line assembler
\* The data members lie in declaration order, each 16-bit member on an even
\* offset and stored low byte first.  Offsets are counted from mRxBuffer[0].
RxLenOff == kRxBufferSize + (kRxBufferSize % 2)
TxBufOff == RxLenOff + 2
TxHeadOff == TxBufOff + kTxBufferSize + (kTxBufferSize % 2)
TxLenOff == TxHeadOff + 2
SendLenOff == TxLenOff + 2

\* A 16-bit member m with its byte k (0: low, 1: high) replaced by val.
SetByte(m, k, val) ==
    IF k = 0 THEN (m \div 256) * 256 + val ELSE val * 256 + (m % 256)

\* Byte k of a 16-bit member m.
GetByte(m, k) == IF k = 0 THEN m % 256 ELSE m \div 256

\* Offsets of the bytes of the members that follow mRxBuffer.
OnMember(off) ==
    \/ off \in RxLenOff..(RxLenOff + 1)
    \/ off \in TxBufOff..(TxBufOff + kTxBufferSize - 1)
    \/ off \in TxHeadOff..(SendLenOff + 1)

\* mRxBuffer[off] = val for an offset outside the array: the byte lands on
\* the member that lies there; on padding or outside the members modelled
\* here it changes none of them.
StoreAt(u, off, val) ==
    LET w == [u EXCEPT !.ub = TRUE]
    IN  IF off \in RxLenOff..(RxLenOff + 1)
        THEN [w EXCEPT !.rxLen = SetByte(@, off - RxLenOff, val)]
        ELSE IF off \in TxBufOff..(TxBufOff + kTxBufferSize - 1)
        THEN [w EXCEPT !.txBuf[off - TxBufOff] = val]
        ELSE IF off \in TxHeadOff..(TxHeadOff + 1)
        THEN [w EXCEPT !.txHead = SetByte(@, off - TxHeadOff, val)]
        ELSE IF off \in TxLenOff..(TxLenOff + 1)
        THEN [w EXCEPT !.txLen = SetByte(@, off - TxLenOff, val)]
        ELSE IF off \in SendLenOff..(SendLenOff + 1)
        THEN [w EXCEPT !.sendLen = SetByte(@, off - SendLenOff, val)]
        ELSE w

\* The byte at an offset that lies on one of the members after mRxBuffer.
LoadAt(u, off) ==
    IF off \in RxLenOff..(RxLenOff + 1)
    THEN GetByte(u.rxLen, off - RxLenOff)
    ELSE IF off \in TxBufOff..(TxBufOff + kTxBufferSize - 1)
    THEN u.txBuf[off - TxBufOff]
    ELSE IF off \in TxHeadOff..(TxHeadOff + 1)
    THEN GetByte(u.txHead, off - TxHeadOff)
    ELSE IF off \in TxLenOff..(TxLenOff + 1)
    THEN GetByte(u.txLen, off - TxLenOff)
    ELSE GetByte(u.sendLen, off - SendLenOff)

\* mRxBuffer[idx] = val.  Inside the array it is the store.  Outside it the
\* behaviour is undefined: on a member the byte lands there, or the
\* operation goes on as if it had not (the compiler holds the member in a
\* register, or writes it back after the store); on padding nothing
\* changes; anywhere else the byte lands in memory not modelled here, or
\* the address is not mapped and the process is killed.
StoreRx(u, idx, val) ==
    IF idx \in 0..(kRxBufferSize - 1)
    THEN {[u EXCEPT !.rxBuf[idx] = val]}
    ELSE IF OnMember(idx)
    THEN {StoreAt(u, idx, val), [u EXCEPT !.ub = TRUE]}
    ELSE IF idx \in kRxBufferSize..(SendLenOff + 1)
    THEN {[u EXCEPT !.ub = TRUE]}
    ELSE {[u EXCEPT !.ub = TRUE], [u EXCEPT !.ub = TRUE, !.killed = TRUE]}

\* The value read from mRxBuffer[idx].  Outside the array it is the byte of
\* the member that lies there; on padding and outside the members modelled
\* here it is indeterminate: a line feed, a carriage return, or any other
\* byte.
ReadRx(u, idx) ==
    IF idx \in 0..(kRxBufferSize - 1) THEN {u.rxBuf[idx]}
    ELSE IF OnMember(idx) THEN {LoadAt(u, idx)}
    ELSE {LF, CR, NUL}

\* if (mRxBuffer[mRxLength - 1] == c) mRxBuffer[--mRxLength] = '\0';
\* A killed process takes no further step, here and in the steps below.
StripTrailing(u, c) ==
    IF u.killed THEN {u} ELSE
    UNION { IF b = c
            THEN LET n == (u.rxLen - 1) % U16
                 IN  StoreRx([u EXCEPT !.rxLen = n], n, NUL)
            ELSE {u}
          : b \in ReadRx(u, u.rxLen - 1) }

\* The bytes the interpreter is handed: mRxBuffer[0 .. mRxLength-1].
LineContent(u) ==
    [i \in 1..Min(u.rxLen, kRxBufferSize) |-> u.rxBuf[i - 1]]

\* What the interpreter writes back while it processes a line: nothing,
\* or one span through Output.
Replies == {<<>>, <<ChX>>}

\* Interpreter::ProcessLine: the interpreter is handed the line and may
\* answer through Output before it returns.
ProcessLine(u) ==
    IF u.killed THEN {u} ELSE
    { IF reply = <<>> THEN v ELSE Output(v, reply)
      : v \in {Emit(u, <<"process_line", LineContent(u), u.rxLen>>)},
        reply \in Replies }

\* mRxLength = 0 (the end of Uart::ProcessCommand)
ResetLine(u) == IF u.killed THEN {u} ELSE {[u EXCEPT !.rxLen = 0]}

\* if '\n' ... if '\r' ... (the strips of Uart::ProcessCommand)
StripBoth(u) == UNION { StripTrailing(u1, CR) : u1 \in StripTrailing(u, LF) }

\* Uart::ProcessCommand
ProcessCommand(u) ==
    UNION { ResetLine(u2) : u2 \in UNION { ProcessLine(u1) : u1 \in StripBoth(u) } }

\* Output(sCommandPrompt, sizeof(sCommandPrompt))
Prompt(u) == IF u.killed THEN {u} ELSE {Output(u, sCommandPrompt)}

\* mRxBuffer[mRxLength] = '\0'; ProcessCommand();
Dispatch(u) == UNION { ProcessCommand(u1) : u1 \in StoreRx(u, u.rxLen, NUL) }

\* The terminator case that writes the prompt before it dispatches the line.
RxTerminator_promptFirst(u) ==
    UNION { IF u1.rxLen > 0 THEN Dispatch(u1) ELSE {u1}
          : u1 \in Prompt(Output(u, CRNL)) }

\* The terminator case that answers only a non-empty line.
RxTerminator_skipsEmpty(u) ==
    IF u.rxLen > 0
    THEN UNION { Prompt(u1) : u1 \in Dispatch(Output(u, CRNL)) }
    ELSE {u}

\* case '\r': case '\n':
RxTerminator(u) ==
    UNION { IF u1.rxLen > 0
            THEN UNION { Prompt(u2) : u2 \in Dispatch(u1) }
            ELSE Prompt(u1)
          : u1 \in {Output(u, CRNL)} }

\* The erase case without the test for an empty line.
RxErase_noEmptyTest(u) ==
    UNION { StoreRx([u1 EXCEPT !.rxLen = (@ - 1) % U16], (u1.rxLen - 1) % U16, NUL)
          : u1 \in {Output(u, sEraseString)} }

\* The erase case that echoes the erase sequence and keeps the line.
RxErase_keepsLine(u) ==
    IF u.rxLen > 0 THEN {Output(u, sEraseString)} ELSE {u}

\* case '\b': case 127:
RxErase(u) ==
    IF u.rxLen > 0
    THEN UNION { StoreRx([u1 EXCEPT !.rxLen = (@ - 1) % U16], (u1.rxLen - 1) % U16, NUL)
               : u1 \in {Output(u, sEraseString)} }
    ELSE {u}

\* The default case that appends the byte without echoing it.
RxDefault_noEcho(u, c) ==
    StoreRx([u EXCEPT !.rxLen = (@ + 1) % U16], u.rxLen, c)

\* default:
RxDefault(u, c) ==
    UNION { StoreRx([u1 EXCEPT !.rxLen = (@ + 1) % U16], u1.rxLen, c)
          : u1 \in {Output(u, <<c>>)} }

\* The body of the for loop of Uart::ReceiveTask, for one byte.
ReceiveByte(u, c) ==
    IF c \in {CR, LF} THEN RxTerminator(u)
    ELSE IF c \in {BS, DEL} THEN RxErase(u)
    ELSE RxDefault(u, c)

\* Uart::ReceiveTask: the for loop over aBuf.
RECURSIVE ReceiveTask(_, _)
ReceiveTask(u, aBuf) ==
    IF aBuf = <<>> \/ u.killed THEN {u}
    ELSE UNION { ReceiveTask(v, Tail(aBuf)) : v \in ReceiveByte(u, Head(aBuf)) }

\* ------------------------------------------------------------- the driver
IsBeginSend(e) == e[1] = "begin_send"

\* Number of otPlatUartSend calls among the events ev.
BeginSends(ev) == Cardinality({i \in DOMAIN ev : IsBeginSend(ev[i])})

\* The bytes otPlatUartSend(mTxBuffer + start, n) transmits.
SpanBytes(txBuf, start, n) == [i \in 1..n |-> txBuf[start + i - 1]]

\* The spans the events ev hand to the driver, read from the ring txBuf.
RECURSIVE Spans(_, _)
Spans(ev, txBuf) ==
    IF ev = <<>> THEN <<>>
    ELSE IF IsBeginSend(Head(ev))
         THEN <<[start |-> Head(ev)[2],
                 bytes |-> SpanBytes(txBuf, Head(ev)[2], Head(ev)[3])]>>
              \o Spans(Tail(ev), txBuf)
         ELSE Spans(Tail(ev), txBuf)

\* --------------------------------------------------------------- actions
Install(u) ==
    /\ mRxBuffer' = u.rxBuf
    /\ mRxLength' = u.rxLen
    /\ mTxBuffer' = u.txBuf
    /\ mTxHead' = u.txHead
    /\ mTxLength' = u.txLen
    /\ mSendLength' = u.sendLen
    /\ ub' = IF ub > 0 THEN ub + 1 ELSE IF u.ub THEN 1 ELSE 0
    /\ killed' = u.killed

\* Spans the platform hands to ReceiveTask: one byte per call.  The loop
\* treats a longer span as its bytes one after the other, so the states a
\* longer span can leave are the states its bytes leave delivered singly.
RxSpans(alphabet) == {<<c>> : c \in alphabet}

RxInputs == RxSpans(RxAlphabet)
\* Spans other callers hand to Output: every length up to the capacity.
WriteInputs == SeqsUpTo({ChX}, kTxBufferSize)

Init ==
    /\ mRxBuffer = UartInit.rxBuf
    /\ mRxLength = UartInit.rxLen
    /\ mTxBuffer = UartInit.txBuf
    /\ mTxHead = UartInit.txHead
    /\ mTxLength = UartInit.txLen
    /\ mSendLength = UartInit.sendLen
    /\ pending = 0
    /\ ub = 0
    /\ killed = FALSE
    /\ lastOp = [op |-> "init", arg |-> <<>>]
    /\ offered = <<>>
    /\ accepted = <<>>
    /\ presented = <<>>

\* otPlatUartReceived -> Uart::ReceiveTask, for a span drawn from inputs.
ReceiveFrom(inputs) ==
    /\ ub < MaxAfter
    /\ ~killed
    /\ \E aBuf \in inputs :
         \E v \in ReceiveTask(Cur, aBuf) :
            /\ Install(v)
            /\ lastOp' = [op |-> "receive", arg |-> <<aBuf[Len(aBuf)]>>]
            /\ pending' = pending + BeginSends(v.ev)
    /\ UNCHANGED logVars

Receive == ReceiveFrom(RxInputs)

\* Uart::Output called from outside ReceiveTask (logging, OutputFormat).
Write ==
    /\ ub < MaxAfter
    /\ ~killed
    /\ \E aBuf \in WriteInputs :
         \E v \in {Output(Cur, aBuf)} :
            /\ Install(v)
            /\ lastOp' = [op |-> "write", arg |-> <<>>]
            /\ pending' = pending + BeginSends(v.ev)
    /\ UNCHANGED logVars

\* otPlatUartSendDone -> Uart::SendDoneTask, for an outstanding send.
SendDone ==
    /\ ub < MaxAfter
    /\ ~killed
    /\ pending > 0
    /\ \E v \in {SendDoneTask(Cur)} :
          /\ Install(v)
          /\ lastOp' = [op |-> "send_done", arg |-> <<>>]
          /\ pending' = (pending - 1) + BeginSends(v.ev)
    /\ UNCHANGED logVars

\* otPlatUartSendDone with no send outstanding at the driver.
SpuriousSendDone ==
    /\ ub < MaxAfter
    /\ ~killed
    /\ pending = 0
    /\ \E v \in {SendDoneTask(Cur)} :
          /\ Install(v)
          /\ lastOp' = [op |-> "spurious_send_done", arg |-> <<>>]
          /\ pending' = BeginSends(v.ev)
    /\ UNCHANGED logVars

Next == Receive \/ Write \/ SendDone \/ SpuriousSendDone

Spec == Init /\ [][Next]_vars

\* The same program fed no line terminator.
PlainInputs == RxSpans(RxAlphabet \ {CR, LF})

ReceivePlain == ReceiveFrom(PlainInputs)

PlainNext == ReceivePlain \/ Write \/ SendDone \/ SpuriousSendDone

SpecPlain == Init /\ [][PlainNext]_vars

\* The same program with a line overrun by a byte whose value, landing on
\* mRxLength, leaves the length pointing at a later member: at the last
\* cell of mTxBuffer, or at mSendLength.
StrayBytes == {TxBufOff + kTxBufferSize - 1, SendLenOff}

\* The spans that overrun the line: a stray byte, alone or with one
\* ordinary byte behind it in the same span.
StrayInputs ==
    {<<s>> \o t : s \in StrayBytes, t \in {<<>>} \cup RxSpans(RxAlphabet \ {CR, LF})}

\* The byte that first overruns the line is one of StrayBytes.
ReceiveStray ==
    /\ mRxLength = kRxBufferSize
    /\ ub = 0
    /\ ReceiveFrom(StrayInputs)

OverrunNext == Receive \/ ReceiveStray \/ Write \/ SendDone \/ SpuriousSendDone

SpecOverrun == Init /\ [][OverrunNext]_vars

\* ------------------------------------------------- the ring on its own
\* The transmit ring driven by Output calls and matching completions only,
\* with the history of what was offered, queued and handed to the driver.
RingInputs == SeqsUpTo(TxAlphabet, kTxBufferSize + 1)

\* The ring is idle and empty with its head anywhere, as it is after
\* earlier traffic has drained.
RingInit ==
    /\ mRxBuffer = UartInit.rxBuf
    /\ mRxLength = UartInit.rxLen
    /\ mTxBuffer = UartInit.txBuf
    /\ mTxHead \in 0..(kTxBufferSize - 1)
    /\ mTxLength = UartInit.txLen
    /\ mSendLength = UartInit.sendLen
    /\ pending = 0
    /\ ub = 0
    /\ killed = FALSE
    /\ lastOp = [op |-> "init", arg |-> <<>>, ret |-> 0, sent |-> 0]
    /\ offered = <<>>
    /\ accepted = <<>>
    /\ presented = <<>>

\* Uart::Output for a span drawn from inputs, with the history kept.
RingWriteFrom(inputs) ==
    \E aBuf \in inputs :
       /\ Len(offered) + Len(aBuf) <= MaxOffered
       /\ \E v \in {Output(Cur, aBuf)}, n \in {OutputCount(Cur, aBuf)} :
             /\ Install(v)
             /\ lastOp' = [op |-> "write", arg |-> aBuf, ret |-> n,
                           sent |-> BeginSends(v.ev)]
             /\ pending' = pending + BeginSends(v.ev)
             /\ offered' = offered \o aBuf
             /\ accepted' = IF n = 0 THEN accepted
                            ELSE Append(accepted,
                                        [at |-> (mTxHead + mTxLength) % kTxBufferSize,
                                         bytes |-> SubSeq(aBuf, 1, n)])
             /\ presented' = presented \o Spans(v.ev, v.txBuf)

RingWrite == RingWriteFrom(RingInputs)

\* otPlatUartSendDone for the outstanding send, with the history kept.
RingSendDone ==
    /\ pending > 0
    /\ \E v \in {SendDoneTask(Cur)} :
          /\ Install(v)
          /\ lastOp' = [op |-> "send_done", arg |-> <<>>, ret |-> 0,
                        sent |-> BeginSends(v.ev)]
          /\ pending' = (pending - 1) + BeginSends(v.ev)
          /\ presented' = presented \o Spans(v.ev, v.txBuf)
    /\ UNCHANGED <<offered, accepted>>

RingNext == RingWrite \/ RingSendDone

SpecRing == RingInit /\ [][RingNext]_vars

\* The ring with a driver that completes every send it was handed:
\* otPlatUartSendDone is eventually called while a send is outstanding.
\* Its writes are spans of one and the same byte, of every length up to one
\* more than the capacity: draining depends on lengths, not on contents.
LiveInputs == SeqsUpTo({ChX}, kTxBufferSize + 1)

LiveWrite == RingWriteFrom(LiveInputs)

LiveNext == LiveWrite \/ RingSendDone

SpecRingLive == RingInit /\ [][LiveNext]_vars /\ WF_vars(RingSendDone)

\* ================================================================ claims
\* What an operation started in the current state may leave behind.
WriteOutcome(aBuf) == Output(Cur, aBuf)
SendDoneOutcome == SendDoneTask(Cur)
ByteOutcomes(c) == ReceiveByte(Cur, c)

\* The ring cells Output fills when it queues n bytes onto u.
TailCells(u, n) == {(u.txHead + u.txLen + k) % kTxBufferSize : k \in 0..(n - 1)}

\* Output queued exactly the first n bytes of aBuf onto u, giving v: each at
\* the next offset after the tail, every other cell and the head untouched.
QueuedPrefix(u, v, aBuf, n) ==
    /\ v.txLen = u.txLen + n
    /\ v.txHead = u.txHead
    /\ \A k \in 0..(n - 1) :
          v.txBuf[(u.txHead + u.txLen + k) % kTxBufferSize] = aBuf[k + 1]
    /\ \A j \in 0..(kTxBufferSize - 1) :
          j \notin TailCells(u, n) => v.txBuf[j] = u.txBuf[j]

\* C1: in every reachable state, in-flight length <= queued length <= capacity.
C1_RingBounds ==
    /\ mSendLength <= mTxLength
    /\ mTxLength <= kTxBufferSize

\* C2: at most one otPlatUartSend is outstanding at the driver at any time.
C2_OneOutstanding == pending <= 1

\* ---- the history of a ring-only run
RECURSIVE Flatten(_)
Flatten(chunks) ==
    IF chunks = <<>> THEN <<>> ELSE Head(chunks).bytes \o Flatten(Tail(chunks))

IsPrefix(s, t) == Len(s) <= Len(t) /\ SubSeq(t, 1, Len(s)) = s

\* Offset in the byte stream at which item i of chunks begins.
RECURSIVE StreamStart(_, _)
StreamStart(chunks, i) ==
    IF i = 1 THEN 0 ELSE StreamStart(chunks, i - 1) + Len(chunks[i - 1].bytes)

\* The write accepted[k] wrapped past the physical end of mTxBuffer.
Straddles(k) == accepted[k].at + Len(accepted[k].bytes) > kTxBufferSize

\* Every byte of accepted[k] has been handed to the driver.
Delivered(k) ==
    Len(Flatten(presented)) >= StreamStart(accepted, k) + Len(accepted[k].bytes)

\* The spans that carry bytes of accepted[k].
SpansOf(k) ==
    LET p == StreamStart(accepted, k)
        n == Len(accepted[k].bytes)
    IN  {j \in DOMAIN presented :
            /\ StreamStart(presented, j) < p + n
            /\ StreamStart(presented, j) + Len(presented[j].bytes) > p}

\* C3: writes totalling at most the capacity, each begin_send completed:
\* what the driver has been handed is always a prefix of what was written,
\* and all of it, in order and once, when the ring has drained.
C3_RoundTrip ==
    Len(offered) <= kTxBufferSize =>
        /\ IsPrefix(Flatten(presented), offered)
        /\ (mTxLength = 0 => Flatten(presented) = offered)

\* C3 witness: two or more writes filling the capacity exactly have been
\* drained by two or more sends.
C3_Witness ==
    /\ Len(offered) = kTxBufferSize
    /\ Len(accepted) >= 2
    /\ Len(presented) >= 2
    /\ mTxLength = 0
    /\ lastOp.op = "send_done"

\* C4: every span handed to the driver lies inside the buffer, starts at
\* the head and is min(queued length, capacity - head) long; the spans are
\* a prefix of the accepted bytes; and a write that straddled the physical
\* end of the buffer is delivered in two or more spans whose bytes are
\* the bytes written, in order.
C4_WrapAround ==
    /\ \A j \in DOMAIN presented :
          /\ presented[j].start \in 0..(kTxBufferSize - 1)
          /\ Len(presented[j].bytes) >= 1
          /\ presented[j].start + Len(presented[j].bytes) <= kTxBufferSize
    /\ lastOp.sent > 0 =>
          /\ lastOp.sent = 1
          /\ presented[Len(presented)].start = mTxHead
          /\ Len(presented[Len(presented)].bytes) = mSendLength
          /\ mSendLength = Min(mTxLength, kTxBufferSize - mTxHead)
    /\ IsPrefix(Flatten(presented), Flatten(accepted))
    /\ \A k \in DOMAIN accepted :
          (Straddles(k) /\ Delivered(k)) =>
              /\ Cardinality(SpansOf(k)) >= 2
              /\ SubSeq(Flatten(presented), StreamStart(accepted, k) + 1,
                        StreamStart(accepted, k) + Len(accepted[k].bytes))
                    = accepted[k].bytes

\* C4 witness: a single write wrapped past the end of the buffer and has
\* been delivered completely.
C4_Witness ==
    \E k \in DOMAIN accepted :
        /\ Straddles(k)
        /\ Delivered(k)
        /\ mTxLength = 0

\* C5: Output returns min(len, capacity - queued length), queues exactly
\* that prefix at the tail, and on a full ring returns 0, changes nothing
\* and starts no send.
C5_WriteAccepts ==
    \A aBuf \in WriteInputs :
        \A v \in {WriteOutcome(aBuf)}, n \in {OutputCount(Cur, aBuf)} :
            /\ n = Min(Len(aBuf), kTxBufferSize - mTxLength)
            /\ QueuedPrefix(Cur, v, aBuf, n)
            /\ mTxLength = kTxBufferSize =>
                  /\ n = 0
                  /\ Fields(v) = Fields(Cur)
                  /\ BeginSends(v.ev) = 0

\* Every operation that can start in the current state, with what it
\* leaves behind.
AllOutcomes ==
    {WriteOutcome(aBuf) : aBuf \in WriteInputs}
    \cup {SendDoneOutcome}
    \cup UNION {ByteOutcomes(c) : c \in RxAlphabet}

\* C6: no operation, started in any reachable state, hands the driver a
\* span of length zero.
C6_NoEmptySend ==
    \A v \in AllOutcomes :
        \A i \in DOMAIN v.ev : IsBeginSend(v.ev[i]) => v.ev[i][3] > 0

\* C6 witness: a completion has emptied the ring and the send-pump, run
\* again, started nothing.
C6_Witness ==
    /\ lastOp.op = "send_done"
    /\ pending = 0
    /\ mTxLength = 0
    /\ mSendLength = 0

\* C7: SendDoneTask with no send in flight changes nothing and starts no
\* send.
C7_SpuriousDoneNoOp ==
    mSendLength = 0 =>
        /\ Fields(SendDoneOutcome) = Fields(Cur)
        /\ SendDoneOutcome.ev = <<>>

\* C8: fed no line terminator, the line length stays below the capacity
\* of mRxBuffer and nothing is stored past its end.
C8_RxWithinCapacity == mRxLength < kRxBufferSize /\ ub = 0

\* C9: a backspace or delete on an empty line changes nothing: the length
\* stays 0, Output is not called and no send starts.
C9_EraseOnEmpty ==
    mRxLength = 0 => \A c \in {BS, DEL} : ByteOutcomes(c) = {Cur}

\* C9 witness: a backspace arrived on an empty line with the ring idle.
C9_Witness ==
    /\ lastOp.op = "receive"
    /\ lastOp.arg = <<BS>>
    /\ mRxLength = 0
    /\ mTxLength = 0
    /\ pending = 0
    /\ ub = 0

\* The line shrank by its last byte: length N-1, the first N-1 bytes kept.
LastByteRemoved(u, v) ==
    /\ v.rxLen = u.rxLen - 1
    /\ \A i \in 0..(u.rxLen - 2) : v.rxBuf[i] = u.rxBuf[i]

\* C10 as stated: a backspace or delete on a line of length N > 0 removes
\* the last byte and queues exactly the three bytes of the erase sequence,
\* whatever the state of the ring.
C10_EraseQueuesThree ==
    mRxLength > 0 =>
        \A c \in {BS, DEL} : \A v \in ByteOutcomes(c) :
            /\ LastByteRemoved(Cur, v)
            /\ QueuedPrefix(Cur, v, sEraseString, Len(sEraseString))

\* C10 amended: on a line of length N, 0 < N <= capacity, a backspace or
\* delete removes the last byte and hands the erase sequence to Output
\* once; the ring queues the first min(3, remaining) bytes of it.
C10_EraseQueuesWhatFits ==
    mRxLength \in 1..kRxBufferSize =>
        \A c \in {BS, DEL} : \A v \in ByteOutcomes(c) :
            \A n \in {Min(Len(sEraseString), (kTxBufferSize - mTxLength) % U16)} :
                /\ LastByteRemoved(Cur, v)
                /\ v.rxBuf[mRxLength - 1] = NUL
                /\ QueuedPrefix(Cur, [v EXCEPT !.txLen = mTxLength + n], sEraseString, n)
                /\ v.txLen = (mTxLength + n) % U16
                /\ Len(v.ev) >= 1
                /\ v.ev[1] = <<"output", sEraseString, n>>
                /\ \A i \in 2..Len(v.ev) : IsBeginSend(v.ev[i])

\* C10 witness: a backspace on a non-empty line found the ring empty and
\* left the whole erase sequence queued.
C10_Witness ==
    /\ lastOp.op = "receive"
    /\ lastOp.arg = <<BS>>
    /\ ub = 0
    /\ mTxLength = Len(sEraseString)
    /\ \A k \in 0..(Len(sEraseString) - 1) : mTxBuffer[(mTxHead + k) % kTxBufferSize] = sEraseString[k + 1]

\* ---- the calls an operation makes
IsProcessLine(e) == e[1] = "process_line"
IsOutput(e) == e[1] = "output"

\* The Interpreter::ProcessLine calls among the events ev, in order.
ProcessLineCalls(ev) == SelectSeq(ev, IsProcessLine)

\* The Output calls among the events ev, in order.
OutputCalls(ev) == SelectSeq(ev, IsOutput)

\* C11: a terminator after a non-empty line of content c makes exactly one
\* ProcessLine call, with content c and length len(c), and leaves the
\* receive length 0.
C11_TerminatorDispatch ==
    mRxLength > 0 =>
        \A c \in {CR, LF} : \A v \in ByteOutcomes(c) :
            /\ ProcessLineCalls(v.ev) = << <<"process_line", LineContent(Cur), mRxLength>> >>
            /\ Len(LineContent(Cur)) = mRxLength
            /\ v.rxLen = 0

\* What the ring accepts of a span of len bytes when txLen bytes are queued.
Fits(len, txLen) == Min(len, (kTxBufferSize - txLen) % U16)

\* The Output calls a terminator on an empty line makes on a ring holding
\* txLen bytes: CRNL, then the prompt, each with the count the ring accepts.
EmptyLineOutputs(txLen) ==
    LET n1 == Fits(Len(CRNL), txLen)
        n2 == Fits(Len(sCommandPrompt), (txLen + n1) % U16)
    IN  << <<"output", CRNL, n1>>, <<"output", sCommandPrompt, n2>> >>

\* C12 as stated: a terminator on an empty line calls ProcessLine zero
\* times, leaves the receive length at 0, and leaves CRNL followed by the
\* whole command prompt queued in the ring behind what it held.
C12_EmptyLineQueuesBoth ==
    mRxLength = 0 =>
        \A c \in {CR, LF} : \A v \in ByteOutcomes(c) :
            /\ ProcessLineCalls(v.ev) = <<>>
            /\ v.rxLen = 0
            /\ QueuedPrefix(Cur, v, CRNL \o sCommandPrompt,
                            Len(CRNL) + Len(sCommandPrompt))

\* C12: a terminator on an empty line calls ProcessLine zero times, leaves
\* the line empty, and hands CRNL and then the prompt to Output, which
\* queues of each what the ring accepts; so does each byte of a CR LF pair.
C12_EmptyLineTerminator ==
    mRxLength = 0 =>
        /\ \A c \in {CR, LF} : \A v \in ByteOutcomes(c) :
              LET calls == EmptyLineOutputs(mTxLength)
                  n1 == calls[1][3]
                  n2 == calls[2][3]
              IN  /\ ProcessLineCalls(v.ev) = <<>>
                  /\ v.rxLen = 0
                  /\ v.rxBuf = mRxBuffer
                  /\ OutputCalls(v.ev) = calls
                  /\ mTxLength <= kTxBufferSize =>
                        QueuedPrefix(Cur, v,
                                     SubSeq(CRNL, 1, n1) \o SubSeq(sCommandPrompt, 1, n2),
                                     n1 + n2)
        /\ \A v \in ReceiveTask(Cur, CRNL) :
              /\ ProcessLineCalls(v.ev) = <<>>
              /\ v.rxLen = 0
              /\ Len(OutputCalls(v.ev)) = 4
              /\ \A i \in 1..4 :
                    OutputCalls(v.ev)[i][2] = IF i \in {1, 3} THEN CRNL ELSE sCommandPrompt

\* C12 witness: a carriage return arrived on a line that was never typed
\* on, with the ring empty: the ring holds CRNL and the whole prompt, and
\* the send started for CRNL is outstanding.
C12_Witness ==
    /\ lastOp.op = "receive"
    /\ lastOp.arg = <<CR>>
    /\ ub = 0
    /\ mRxLength = 0
    /\ mRxBuffer = UartInit.rxBuf
    /\ mTxHead = 0
    /\ mTxLength = Len(CRNL) + Len(sCommandPrompt)
    /\ mSendLength = Len(CRNL)
    /\ pending = 1
    /\ \A k \in 1..mTxLength : mTxBuffer[k - 1] = (CRNL \o sCommandPrompt)[k]

\* C13: a completion with k > 0 bytes in flight moves the head to
\* (head + k) mod capacity, takes exactly k off the queued length, and
\* then either starts the next send at the new head, min(queued, capacity
\* - head) long, or, with nothing queued, leaves the ring idle; the buffers
\* and the receive line are not touched.
C13_CompletionAdvances ==
    mSendLength > 0 =>
        LET v == SendDoneOutcome
            k == mSendLength
            h == (mTxHead + k) % kTxBufferSize
            q == mTxLength - k
        IN  /\ v.txHead = h
            /\ v.txLen = q
            /\ v.txBuf = mTxBuffer
            /\ v.rxBuf = mRxBuffer
            /\ v.rxLen = mRxLength
            /\ IF q > 0
               THEN /\ v.ev = << <<"begin_send", h, Min(q, kTxBufferSize - h)>> >>
                    /\ v.sendLen = Min(q, kTxBufferSize - h)
               ELSE /\ v.ev = <<>>
                    /\ v.sendLen = 0

\* C13 witness: a completion has wrapped the head to the start of the
\* buffer and started the next send there.
C13_Witness ==
    /\ lastOp.op = "send_done"
    /\ lastOp.sent = 1
    /\ mTxHead = 0
    /\ mSendLength > 0
    /\ Len(presented) >= 2
    /\ presented[Len(presented)].start = 0
    /\ presented[Len(presented) - 1].start > 0

\* The ring is idle and empty, and the driver has been handed every byte
\* Output accepted, in order.
RingDrained ==
    /\ mTxLength = 0
    /\ mSendLength = 0
    /\ Flatten(presented) = Flatten(accepted)

\* Some span handed to the driver carries bytes of two Output calls: the
\* later call queued its bytes while a send was outstanding.
MergedSpan ==
    \E j \in DOMAIN presented : \E k \in DOMAIN accepted :
        /\ StreamStart(presented, j) < StreamStart(accepted, k)
        /\ StreamStart(accepted, k) < StreamStart(presented, j) + Len(presented[j].bytes)

\* C14: with every send completed by the driver and the writes of a run
\* coming to an end, the ring ends up drained for good: nothing queued,
\* nothing in flight, every accepted byte handed to the driver.
C14_EventuallyDrained == <>[]RingDrained

\* C14 witness: the ring has drained after a write that wrapped past the
\* end of the buffer and after bytes were queued behind an outstanding send.
C14_Witness ==
    /\ RingDrained
    /\ MergedSpan
    /\ \E k \in DOMAIN accepted : Straddles(k)

\* C15: under any interleaving of Output calls and matching completions,
\* the spans handed to the driver are a prefix of the accepted bytes, and
\* the ring holds, from the head on, exactly the accepted bytes not yet
\* completed (those in flight, then those queued), none overwritten.
C15_NoLossNoOverwrite ==
    LET A == Flatten(accepted)
        P == Flatten(presented)
    IN  /\ IsPrefix(P, A)
        /\ mSendLength <= Len(P)
        /\ Len(A) - (Len(P) - mSendLength) = mTxLength
        /\ \A i \in 1..mTxLength :
              mTxBuffer[(mTxHead + i - 1) % kTxBufferSize] = A[Len(P) - mSendLength + i]

\* C15 witness: more bytes than the ring holds have been accepted over
\* time, a write has been cut short on a full ring, and bytes are queued.
C15_Witness ==
    /\ Len(Flatten(accepted)) > kTxBufferSize
    /\ Len(Flatten(accepted)) < Len(offered)
    /\ Len(presented) >= 2
    /\ mTxLength = kTxBufferSize
    /\ mSendLength < mTxLength

\* Bytes that reach the default case of ReceiveTask.
Keystrokes == {ChA, ChX}

\* C16 as stated: every keystroke is queued in the output ring, whatever
\* the state of the ring, and appended to the line.
C16_EchoQueued ==
    \A c \in Keystrokes : \A v \in ByteOutcomes(c) :
        /\ QueuedPrefix(Cur, v, <<c>>, 1)
        /\ v.rxLen = mRxLength + 1

\* C16 amended: every keystroke is handed to Output exactly once, as a
\* span of that one byte, and nothing else is written; the ring queues it
\* when it has a free byte and drops it when it is full; while the line is
\* shorter than its buffer the byte is appended to it either way.
C16_EchoHandedToWrite ==
    \A c \in Keystrokes : \A v \in ByteOutcomes(c) :
        \A n \in {Fits(1, mTxLength)} :
            /\ Len(v.ev) >= 1
            /\ v.ev[1] = <<"output", <<c>>, n>>
            /\ \A i \in 2..Len(v.ev) : IsBeginSend(v.ev[i])
            /\ mRxLength < kRxBufferSize =>
                  /\ QueuedPrefix(Cur, v, <<c>>, n)
                  /\ v.rxLen = mRxLength + 1
                  /\ v.rxBuf = [mRxBuffer EXCEPT ![mRxLength] = c]

\* C16 witness: a keystroke arrived while the ring was full: it is the
\* last byte of the line and no cell of the ring holds it.
C16_Witness ==
    /\ lastOp.op = "receive"
    /\ lastOp.arg = <<ChA>>
    /\ ub = 0
    /\ mRxLength >= 1
    /\ mRxBuffer[mRxLength - 1] = ChA
    /\ mTxLength = kTxBufferSize
    /\ \A j \in 0..(kTxBufferSize - 1) : mTxBuffer[j] # ChA

\* The Output and ProcessLine calls among the events ev, in order.
IsCall(e) == IsOutput(e) \/ IsProcessLine(e)
Calls(ev) == SelectSeq(ev, IsCall)

\* C17: a terminator on a non-empty line writes CRNL, then calls
\* ProcessLine, then queues what the interpreter writes during the call,
\* then writes the prompt, and resets the receive length; only then is the
\* next byte of the same span examined: its echo comes after the prompt
\* and it starts a new line at index 0.  A run killed by the store of the
\* terminating NUL ends after CRNL, with no call out of this order.
C17_TerminatorOrder ==
    mRxLength > 0 =>
        \A c \in {CR, LF} : \A w \in ReceiveTask(Cur, <<c, ChA>>) :
            \A calls \in {Calls(w.ev)} : \A last \in {Len(calls)} :
                /\ last >= 1
                /\ IsOutput(calls[1]) /\ calls[1][2] = CRNL
                /\ w.killed => last = 1
                /\ ~w.killed =>
                      /\ last \in {4, 5}
                      /\ IsProcessLine(calls[2])
                      /\ last = 5 =>
                            /\ IsOutput(calls[3])
                            /\ calls[3][2] \in Replies \ {<<>>}
                      /\ IsOutput(calls[last - 1])
                      /\ calls[last - 1][2] = sCommandPrompt
                      /\ IsOutput(calls[last]) /\ calls[last][2] = <<ChA>>
                      /\ w.rxLen = 1
                      /\ w.rxBuf[0] = ChA

\* C17 witness: a carriage return completed the line "a" with the ring
\* empty: the ring holds CRNL and then the interpreter's reply, and the
\* line is empty again.
C17_Witness ==
    /\ lastOp.op = "receive"
    /\ lastOp.arg = <<CR>>
    /\ ub = 0
    /\ mRxLength = 0
    /\ mRxBuffer[0] = ChA
    /\ mTxLength = kTxBufferSize
    /\ mTxBuffer[mTxHead] = CR
    /\ mTxBuffer[(mTxHead + 1) % kTxBufferSize] = LF
    /\ mTxBuffer[(mTxHead + 2) % kTxBufferSize] = ChX

\* C18: no CR or LF is among the first mRxLength bytes of mRxBuffer, so a
\* terminator hands the interpreter the line exactly as accumulated
\* (ProcessCommand strips nothing) and never a line of length zero.
C18_NoTerminatorInLine ==
    /\ \A i \in 0..(Min(mRxLength, kRxBufferSize) - 1) : mRxBuffer[i] \notin {CR, LF}
    /\ \A c \in {CR, LF} : \A v \in ByteOutcomes(c) :
          \A calls \in {ProcessLineCalls(v.ev)} : \A i \in DOMAIN calls :
              /\ calls[i][3] > 0
              /\ calls[i][3] = mRxLength
              /\ calls[i][2] = LineContent(Cur)

\* C19: between operations, nothing in flight means nothing queued: the
\* ring is never left holding bytes with no send outstanding.
C19_IdleMeansEmpty == mSendLength = 0 => mTxLength = 0

\* ---- two runs that differ in the ring only
\* The ring state to run the same byte against: full, all of it in flight,
\* so that every echo is cut.  Two reachable states with the same line
\* buffer are compared with each other through it.
FullRing == [txHead |-> 0, txLen |-> kTxBufferSize, sendLen |-> kTxBufferSize]

\* The object u with its ring replaced by r.
WithRing(u, r) ==
    [u EXCEPT !.txBuf = UartInit.txBuf, !.txHead = r.txHead,
              !.txLen = r.txLen, !.sendLen = r.sendLen]

\* What the line assembler shows of an outcome: the line buffer, its
\* length, and the lines handed to the interpreter.
RxView(v) == [rxBuf |-> v.rxBuf, rxLen |-> v.rxLen, lines |-> ProcessLineCalls(v.ev)]

\* C20: the line buffer, its length and the ProcessLine calls a byte of
\* each case leads to are the same whatever the ring holds, whether echoes
\* are queued or cut; Output and SendDoneTask leave the line buffer and
\* its length alone and hand nothing to the interpreter.
C20_LineIndependentOfRing ==
    /\ \A c \in RxAlphabet :
          {RxView(v) : v \in ReceiveByte(WithRing(Cur, FullRing), c)}
              = {RxView(v) : v \in ByteOutcomes(c)}
    /\ \A v \in {WriteOutcome(aBuf) : aBuf \in WriteInputs} \cup {SendDoneOutcome} :
          /\ v.rxBuf = mRxBuffer
          /\ v.rxLen = mRxLength
          /\ ProcessLineCalls(v.ev) = <<>>

====
